---- MODULE Spec2Model ----
(***************************************************************************)
(* A model of the planning core of the deployment engine:                  *)
(*   - pkg/resource/deploy/step_generator.go : the step generator          *)
(*   - build/compose/util.sh (lines 23-424)  : the provider registry       *)
(*     (providerLoader, metaProvider, shimProvider)                        *)
(* The two components share no state; each has its own specification.     *)
(***************************************************************************)
EXTENDS Integers, Sequences, FiniteSets, TLC

(* ------------------------------ bounds -------------------------------- *)
\* longest previous snapshot (len(prev.Resources))
MaxSnap == 3
\* most GenerateSteps calls in one plan
MaxCalls == 2
\* most failures one Check or one Analyze call reports
MaxFailures == 2
\* most entries of the previous snapshot that are pending deletion
MaxPending == 1

(* --------------------------- value domains ---------------------------- *)
\* resource names a program may register; one resource type
NameOrder == << "a", "b", "c" >>
Names == { NameOrder[i] : i \in 1..Len(NameOrder) }
ResType == "t"
\* property maps: two distinguishable maps, and the nil map
Props == {"p0", "p1"}
NoProps == "nil"
\* the inputs / outputs recorded for every resource of the previous snapshot
SnapInputs == "p0"
SnapOutputs == "p1"
\* CheckFailure.Property: empty (whole resource) or a property name
FailureProps == {"", "k"}

\* generateURN: the URN is built from the goal's type and name (stack,
\* project and parent type are fixed for one plan)
generateURN(goal) == <<goal.type, goal.name>>

URNs == {<<ResType, n>> : n \in Names}
Goals == [type : {ResType}, name : Names, custom : BOOLEAN, props : Props]

VARIABLES
    prev,       \* sg.plan.prev.Resources: the previous snapshot, in stored order
    refresh,    \* sg.plan.IsRefresh()
    urns,       \* sg.urns
    creates,    \* sg.creates
    sames,      \* sg.sames
    updates,    \* sg.updates
    replaces,   \* sg.replaces
    deletes,    \* sg.deletes
    steps,      \* the []Step the last call returned
    err,        \* the error the last call returned ("none" for nil)
    diags,      \* the diagnostics the last call sent to plan.Diag()
    call,       \* what the last call was and what it saw (history): inputs and
                \* outputs are the ones line 180 hands to sg.diff, newInputs
                \* is new.Inputs when the call returns
    phase,      \* "registering", "done" (after GenerateDeletes), "failed"
                \* (a call returned an error: the plan is aborted), "panicked"
    ncalls,     \* number of GenerateSteps calls so far
    seen,       \* URNs GenerateSteps was called for so far (history)
    cascaded,   \* per snapshot entry: dependents' delete steps emitted (history)
    \* --- the provider registry (providerLoader, metaProvider) ---
    providers,  \* providerLoader.providers: URN -> providerRecord
    plugins,    \* the plugin host: every plugin instance host.Provider returned
    hostLoads,  \* per URN: host.Provider calls made to serve it (history)
    issued,     \* per URN: the handle its successful load replied (history)
    cpc,        \* per caller: "idle", "sending" (its request waits on
                \* loadRequests), "waiting" (its request is being served)
    creq,       \* per caller: the request of its current or last call
    cres,       \* per caller: the response its last call returned
    spc,        \* the serving task: "idle" (at range requests), "received",
                \* "configure", "shim", "replying", "panicked"
    sreq,       \* the request the serving task is handling
    sprov,      \* the plugin the serving task has just loaded
    sresp,      \* the response the serving task is about to send
    nreq        \* number of calls made on the meta-provider so far

sgvars == <<prev, refresh, urns, creates, sames, updates, replaces, deletes,
            steps, err, diags, call, phase, ncalls, seen, cascaded>>

mpvars == <<providers, plugins, hostLoads, issued, cpc, creq, cres,
            spc, sreq, sprov, sresp, nreq>>

vars == <<sgvars, mpvars>>

(* ------------------------- previous snapshot -------------------------- *)
Entries(known) ==
    [urn : URNs, delete : BOOLEAN, deps : SUBSET known,
     inputs : {SnapInputs}, outputs : {SnapOutputs}]

\* the entries that may follow snapshot s: dependencies name earlier
\* entries (the snapshot is stored in dependency order) and a URN has at
\* most one entry that is not pending deletion; no entry depends on its own
\* URN.  Names are interchangeable,
\* so a snapshot introduces them in the order of NameOrder.
NextEntries(s) ==
    LET known == { s[i].urn : i \in 1..Len(s) }
        fresh == { <<ResType, NameOrder[k]>> :
                     k \in { j \in 1..Len(NameOrder) : j = Cardinality(known) + 1 } }
    IN  { r \in Entries(known) :
            /\ r.urn \in known \cup fresh
            /\ r.urn \notin r.deps
            /\ r.delete \/ \A i \in 1..Len(s) : s[i].delete \/ s[i].urn # r.urn
            /\ r.delete => Cardinality({ i \in 1..Len(s) : s[i].delete }) < MaxPending }

RECURSIVE SnapshotsOfLen(_)
SnapshotsOfLen(n) ==
    IF n = 0 THEN { <<>> }
    ELSE UNION { { Append(s, r) : r \in NextEntries(s) } : s \in SnapshotsOfLen(n - 1) }

Snapshots == UNION { SnapshotsOfLen(n) : n \in 0..MaxSnap }

Live(i) == ~prev[i].delete

\* plan.Olds(): URN -> the snapshot entry that is not pending deletion
Olds ==
    [ u \in { prev[i].urn : i \in { j \in 1..Len(prev) : Live(j) } } |->
        CHOOSE i \in 1..Len(prev) : Live(i) /\ prev[i].urn = u ]

\* plan.depGraph.DependingOn(old): the entries stored after `old` that
\* depend on it directly or indirectly, in stored (dependency) order
RECURSIVE DependingOnFrom(_, _, _)
DependingOnFrom(i, dependentSet, dependents) ==
    IF i > Len(prev) THEN dependents
    ELSE IF prev[i].deps \cap dependentSet # {}
         THEN DependingOnFrom(i + 1, dependentSet \cup {prev[i].urn},
                              Append(dependents, i))
         ELSE DependingOnFrom(i + 1, dependentSet, dependents)

DependingOn(old) == DependingOnFrom(old + 1, {prev[old].urn}, <<>>)

(* ------------------------------- steps -------------------------------- *)
\* a Step: its kind, the URN it is for, the snapshot entry it acts on (0 when
\* there is none) and the boolean its constructor is given (pendingDelete)
Step(op, urn, old, flag) == [op |-> op, urn |-> urn, old |-> old, flag |-> flag]
NewSameStep(urn, old) == Step("Same", urn, old, FALSE)
NewCreateStep(urn) == Step("Create", urn, 0, FALSE)
NewUpdateStep(urn, old) == Step("Update", urn, old, FALSE)
NewReplaceStep(urn, old, pendingDelete) == Step("Replace", urn, old, pendingDelete)
NewCreateReplacementStep(urn, old, pendingDelete) == Step("CreateReplacement", urn, old, pendingDelete)
NewDeleteReplacementStep(old, pendingDelete) == Step("DeleteReplacement", prev[old].urn, old, pendingDelete)
NewDeleteStep(old) == Step("Delete", prev[old].urn, old, FALSE)

(* --------------------- the environment's answers ---------------------- *)
\* sg.provider(goal.Type): only custom resources have a provider; resolving
\* it may fail
ProviderOutcomes(custom) == IF custom THEN {"ok", "error"} ELSE {"nil"}

\* sequences of at most n elements of S
SeqsUpTo(S, n) == UNION { [1..k -> S] : k \in 0..n }

NoCheck == [called |-> FALSE, err |-> FALSE, failures |-> <<>>, inputs |-> NoProps]

\* the failure lists Check answers with: at most MaxFailures failures, each
\* naming a property or the whole resource (""), none listed twice
CheckFailureLists ==
    { f \in SeqsUpTo(FailureProps, MaxFailures) :
        f # <<>> /\ \A i, j \in 1..Len(f) : f[i] = f[j] => i = j }

\* prov.Check: a hard error, or checked inputs with a list of failures
CheckOutcomes(called) ==
    IF ~called THEN { NoCheck }
    ELSE { [called |-> TRUE, err |-> TRUE, failures |-> <<>>, inputs |-> NoProps] }
         \cup [called : {TRUE}, err : {FALSE},
               failures : CheckFailureLists,
               inputs : {NoProps}]
         \cup [called : {TRUE}, err : {FALSE}, failures : { <<>> }, inputs : Props]

\* sg.plan.analyzers: the analyzers of the plan
analyzers == << "policy" >>

\* one analyzer: Host.Analyzer fails or returns nil, Analyze fails, or
\* Analyze reports a number of failures
AnalyzerOutcomes ==
    [res : {"loaderr", "nil", "analyzeerr"}, failures : {0}]
    \cup [res : {"ok"}, failures : 0..MaxFailures]

\* prov.Diff: a hard error or a DiffResult.  "bogus" is a change indicator
\* that is none of DiffNone, DiffSome, DiffUnknown
DiffChanges == {"none", "some", "unknown", "bogus"}
NoDiff == [err |-> FALSE, changes |-> "n/a", replaceKeys |-> {}, dbr |-> FALSE]
ProviderDiffs(called) ==
    IF ~called THEN { NoDiff }
    ELSE { [err |-> TRUE, changes |-> "n/a", replaceKeys |-> {}, dbr |-> FALSE] }
         \cup [err : {FALSE}, changes : {"none", "bogus"},
               replaceKeys : {{}}, dbr : {FALSE}]
         \cup [err : {FALSE}, changes : {"some", "unknown"},
               replaceKeys : {{}, {"k"}}, dbr : BOOLEAN]

\* DiffResult.Replace(): replacement is required when keys forced it
Replace(d) == d.replaceKeys # {}

(* ------------------------- GenerateSteps parts ------------------------ *)
\* line 56: has this URN been discovered in this plan already?
IsDuplicateURN(urnset, urn) == urn \in urnset

\* getResourcePropertyStates: props, inputs and outputs of the new state
getResourcePropertyStates(urn, goal) ==
    IF refresh
    THEN [props |-> goal.props,
          inputs |-> IF urn \in DOMAIN Olds THEN prev[Olds[urn]].inputs ELSE NoProps,
          outputs |-> goal.props]
    ELSE [props |-> goal.props, inputs |-> goal.props, outputs |-> NoProps]

issueCheckErrorsDiags_Mut(urn, failures) ==
    [ i \in 1..(IF Len(failures) = 0 THEN 0 ELSE 1) |->
        [kind |-> IF failures[i] # "" THEN "invalidProperty" ELSE "invalidResource",
         urn |-> urn] ]
\* issueCheckErrors: one diagnostic per failure; true iff there was one
issueCheckErrorsDiags(urn, failures) ==
    [ i \in 1..Len(failures) |->
        [kind |-> IF failures[i] # "" THEN "invalidProperty" ELSE "invalidResource",
         urn |-> urn] ]
issueCheckErrors(failures) == Len(failures) # 0

\* lines 116-134: the analyzer loop; outs[i] is what analyzer i answers
RECURSIVE AnalyzeFrom(_, _, _, _)
AnalyzeFrom(i, outs, urn, acc) ==
    IF i > Len(analyzers) THEN acc
    ELSE IF outs[i].res # "ok"
         THEN [acc EXCEPT !.err = outs[i].res]
         ELSE AnalyzeFrom(i + 1, outs, urn,
                [acc EXCEPT !.invalid = acc.invalid \/ outs[i].failures > 0,
                            !.diags = acc.diags \o
                                [ k \in 1..outs[i].failures |->
                                    [kind |-> "analyze", urn |-> urn] ]])

\* lines 362-367: did the inputs (the outputs, in a refresh) change?
hasChanges_Mut(oldInputs, oldOutputs, newInputs, newOutputs) ==
    oldOutputs # newOutputs
hasChanges(oldInputs, oldOutputs, newInputs, newOutputs) ==
    IF refresh THEN oldOutputs # newOutputs ELSE oldInputs # newInputs

\* sg.diff reaches prov.Diff when there are changes and a provider
DiffCallsProvider(oldInputs, oldOutputs, newInputs, newOutputs, hasProv) ==
    hasChanges(oldInputs, oldOutputs, newInputs, newOutputs) /\ hasProv

\* lines 383-385: an "unknown" answer of the provider counts as "diffs exist"
NormalizeChanges_Mut(changes) == changes
NormalizeChanges(changes) == IF changes = "unknown" THEN "some" ELSE changes

diff_Mut(oldInputs, oldOutputs, newInputs, newOutputs, hasProv, pd) ==
    IF ~hasChanges(oldInputs, oldOutputs, newInputs, newOutputs) \/ ~hasProv
        THEN [called |-> FALSE, err |-> FALSE, changes |-> "none",
              replaceKeys |-> {}, dbr |-> FALSE]
        ELSE IF pd.err
        THEN [called |-> TRUE, err |-> TRUE, changes |-> "n/a",
              replaceKeys |-> {}, dbr |-> FALSE]
        ELSE [called |-> TRUE, err |-> FALSE,
              changes |-> NormalizeChanges(pd.changes),
              replaceKeys |-> pd.replaceKeys, dbr |-> pd.dbr]
\* sg.diff: the legacy short-circuit, the providerless case, the provider's
\* answer pd with DiffUnknown turned into DiffSome
diff(oldInputs, oldOutputs, newInputs, newOutputs, hasProv, pd) ==
    IF ~hasChanges(oldInputs, oldOutputs, newInputs, newOutputs)
        THEN [called |-> FALSE, err |-> FALSE, changes |-> "none",
              replaceKeys |-> {}, dbr |-> FALSE]
        ELSE IF ~hasProv
        THEN [called |-> FALSE, err |-> FALSE, changes |-> "some",
              replaceKeys |-> {}, dbr |-> FALSE]
        ELSE IF pd.err
        THEN [called |-> TRUE, err |-> TRUE, changes |-> "n/a",
              replaceKeys |-> {}, dbr |-> FALSE]
        ELSE [called |-> TRUE, err |-> FALSE,
              changes |-> NormalizeChanges(pd.changes),
              replaceKeys |-> pd.replaceKeys, dbr |-> pd.dbr]

\* line 248: "if we already deleted this resource due to some other DBR,
\* don't do it again" -- the test reads the URN being replaced
AlreadyDeleted(dels, urn, dependentURN) == urn \in dels

\* lines 244-259: walk the dependents in reverse, emitting a delete step for
\* each and marking it deleted
RECURSIVE CascadeFrom(_, _, _, _)
CascadeFrom(i, dependents, urn, acc) ==
    IF i < 1 THEN acc
    ELSE IF AlreadyDeleted(acc.deletes, urn, prev[dependents[i]].urn)
         THEN CascadeFrom(i - 1, dependents, urn, acc)
         ELSE CascadeFrom(i - 1, dependents, urn,
                [steps |-> Append(acc.steps,
                                  NewDeleteReplacementStep(dependents[i], FALSE)),
                 deletes |-> acc.deletes \cup {prev[dependents[i]].urn},
                 cascaded |-> [acc.cascaded EXCEPT ![dependents[i]] = @ + 1]])

Cascade(dependents, urn, dels) ==
    CascadeFrom(Len(dependents), dependents, urn,
                [steps |-> <<>>, deletes |-> dels, cascaded |-> cascaded])

\* the five disposition sets (and the cascade history) as one value
Sets ==
    [creates |-> creates, sames |-> sames, updates |-> updates,
     replaces |-> replaces, deletes |-> deletes, cascaded |-> cascaded]

NoCall ==
    [op |-> "none", urn |-> <<>>, custom |-> FALSE, hasOld |-> FALSE, old |-> 0,
     recreating |-> FALSE, again |-> FALSE, valid |-> FALSE, checkOlds |-> NoProps,
     checkNews |-> NoProps, inputs |-> NoProps, outputs |-> NoProps,
     newInputs |-> NoProps,
     diffCalled |-> FALSE, diff |-> NoDiff, rechecked |-> FALSE,
     checkFailures |-> <<>>, analyzed |-> <<>>, recheckFailures |-> <<>>,
     props |-> NoProps, checked |-> FALSE, provChanges |-> "n/a"]

\* line 294, 284, 276, 162/195: the disposition a registration is given
recordCreate_Mut(S, urn) == [S EXCEPT !.updates = @ \cup {urn}]
recordCreate(S, urn) == [S EXCEPT !.creates = @ \cup {urn}]
recordSame(S, urn) == [S EXCEPT !.sames = @ \cup {urn}]
recordUpdate(S, urn) == [S EXCEPT !.updates = @ \cup {urn}]
recordReplace(S, urn) == [S EXCEPT !.replaces = @ \cup {urn}]

\* lines 268-272: the steps of a create-before-delete replacement
ReplaceSteps_Mut(urn, old) ==
    << NewReplaceStep(urn, old, TRUE), NewCreateReplacementStep(urn, old, TRUE) >>
ReplaceSteps(urn, old) ==
    << NewCreateReplacementStep(urn, old, TRUE), NewReplaceStep(urn, old, TRUE) >>

\* lines 163-166: the steps that re-create a resource a cascade deleted
RecreateSteps(urn, old) ==
    << NewReplaceStep(urn, old, FALSE), NewCreateReplacementStep(urn, old, FALSE) >>

\* a GenerateSteps call returns: its result, what it left in the sets
Return(c, s, e, d, S) ==
    /\ call' = c
    /\ steps' = s
    /\ err' = e
    /\ diags' = d
    /\ creates' = S.creates
    /\ sames' = S.sames
    /\ updates' = S.updates
    /\ replaces' = S.replaces
    /\ deletes' = S.deletes
    /\ cascaded' = S.cascaded
    /\ seen' = seen \cup {c.urn}
    /\ ncalls' = ncalls + 1
    /\ phase' = IF e = "none" THEN phase
                 ELSE IF e = "panic" THEN "panicked" ELSE "failed"
    /\ UNCHANGED <<prev, refresh, urns>>
    /\ UNCHANGED mpvars

\* lines 193-273: the diff said "some" and Replace(): record the URN in
\* replaces, re-Check with no olds, then delete-before-replace or not
Replacement(c, d, urn, old, hasProv, goal, df) ==
    LET S1 == recordReplace(Sets, urn)
    IN  \E rc \in CheckOutcomes(hasProv /\ ~refresh) :
          LET c1 == [c EXCEPT !.rechecked = rc.called,
                              !.recheckFailures = rc.failures,
                              !.newInputs = IF rc.called /\ ~rc.err /\ ~issueCheckErrors(rc.failures)
                                            THEN rc.inputs ELSE @]
              d1 == d \o issueCheckErrorsDiags(urn, rc.failures)
          IN  IF rc.err THEN Return(c1, <<>>, "check", d, S1)
              ELSE IF issueCheckErrors(rc.failures)
              THEN Return(c1, <<>>, "validation", d1, S1)
              ELSE IF df.dbr
              THEN LET r == Cascade(DependingOn(old), urn, S1.deletes)
                   IN  Return(c1,
                              r.steps \o << NewDeleteReplacementStep(old, FALSE),
                                            NewReplaceStep(urn, old, FALSE),
                                            NewCreateReplacementStep(urn, old, FALSE) >>,
                              "none", d1,
                              [S1 EXCEPT !.deletes = r.deletes, !.cascaded = r.cascaded])
              ELSE Return(c1, ReplaceSteps(urn, old), "none", d1, S1)

\* lines 141-297: the registration is valid; decide what to do with it
Dispatch(c, d, urn, old, hasOld, recreating, hasProv, goal, inputs, outputs) ==
    IF recreating /\ ~hasOld THEN Return(c, <<>>, "panic", d, Sets)
    ELSE IF recreating
    THEN IF refresh THEN Return(c, <<>>, "panic", d, Sets)
         ELSE Return(c, RecreateSteps(urn, old), "none", d,
                     recordReplace([Sets EXCEPT !.deletes = @ \ {urn}], urn))
    ELSE IF hasOld
    THEN \E pd \in ProviderDiffs(DiffCallsProvider(prev[old].inputs, prev[old].outputs,
                                                  inputs, outputs, hasProv)) :
           LET df == diff(prev[old].inputs, prev[old].outputs, inputs, outputs,
                          hasProv, pd)
               c1 == [c EXCEPT !.diffCalled = df.called,
                               !.provChanges = IF df.called THEN pd.changes ELSE "n/a",
                               !.diff = [err |-> df.err, changes |-> df.changes,
                                         replaceKeys |-> df.replaceKeys,
                                         dbr |-> df.dbr]]
           IN  IF df.err THEN Return(c1, <<>>, "diff", d, Sets)
               ELSE IF df.changes # "none" /\ df.changes # "some"
               THEN Return(c1, <<>>, "unrecognized diff state", d, Sets)
               ELSE IF df.changes = "some"
               THEN IF Replace(df)
                    THEN Replacement(c1, d, urn, old, hasProv, goal, df)
                    ELSE Return(c1, << NewUpdateStep(urn, old) >>, "none", d,
                                recordUpdate(Sets, urn))
               ELSE Return(c1, << NewSameStep(urn, old) >>, "none", d,
                           recordSame(Sets, urn))
    ELSE Return(c, << NewCreateStep(urn) >>, "none", d,
                recordCreate(Sets, urn))

\* GenerateSteps(event): lines 50-297
GenerateSteps(goal) ==
    /\ phase = "registering"
    /\ ncalls < MaxCalls
    /\ LET urn == generateURN(goal)
           dup == IsDuplicateURN(urns, urn)
           d0 == IF dup THEN << [kind |-> "duplicate", urn |-> urn] >> ELSE <<>>
           hasOld == urn \in DOMAIN Olds
           old == IF hasOld THEN Olds[urn] ELSE 0
           oldInputs == IF hasOld THEN prev[old].inputs ELSE NoProps
           st == getResourcePropertyStates(urn, goal)
           recreating == urn \in deletes
           c0 == [NoCall EXCEPT !.op = "GenerateSteps", !.urn = urn,
                                !.custom = goal.custom, !.hasOld = hasOld,
                                !.old = old, !.recreating = recreating,
                                !.again = urn \in seen,
                                !.inputs = st.inputs, !.outputs = st.outputs,
                                !.newInputs = st.inputs,
                                !.props = goal.props]
       IN  \E po \in ProviderOutcomes(goal.custom) :
             IF po = "error" THEN Return(c0, <<>>, "provider", d0, Sets)
             ELSE
             LET hasProv == po = "ok" IN
             \E ck \in CheckOutcomes(hasProv /\ ~refresh) :
               LET c1 == [c0 EXCEPT
                            !.checkOlds = IF ~ck.called THEN NoProps
                                          ELSE IF recreating THEN NoProps ELSE oldInputs,
                            !.checkNews = IF ~ck.called THEN NoProps
                                          ELSE IF recreating THEN goal.props ELSE st.inputs,
                            !.inputs = IF ck.called THEN ck.inputs ELSE @,
                            !.newInputs = IF ck.called THEN ck.inputs ELSE @,
                            !.checkFailures = ck.failures,
                            !.checked = ck.called]
                   d1 == d0 \o issueCheckErrorsDiags(urn, ck.failures)
                   invalid1 == dup \/ issueCheckErrors(ck.failures)
               IN  IF ck.err THEN Return(c1, <<>>, "check", d0, Sets)
                   ELSE
                   \E outs \in [1..Len(analyzers) -> AnalyzerOutcomes] :
                     LET ar == AnalyzeFrom(1, outs, urn,
                                 [err |-> "ok", invalid |-> invalid1, diags |-> d1])
                         c2 == [c1 EXCEPT !.analyzed = outs]
                     IN  IF ar.err # "ok"
                         THEN Return(c2, <<>>, "analyzer", ar.diags, Sets)
                         ELSE IF ar.invalid
                         THEN Return(c2, <<>>, "validation", ar.diags, Sets)
                         ELSE Dispatch([c2 EXCEPT !.valid = TRUE], ar.diags, urn, old, hasOld, recreating,
                                       hasProv, goal, c2.inputs, st.outputs)

\* line 332: an entry that is not pending deletion is deleted when its URN is
\* in none of sames, updates, replaces, deletes
ShouldDelete_Mut(urn, dels) ==
    urn \notin sames /\ urn \notin updates /\ urn \notin dels
ShouldDelete(urn, dels) ==
    urn \notin sames /\ urn \notin updates /\ urn \notin replaces /\ urn \notin dels

\* lines 308-331: an entry pending deletion gets its delete step and its URN
\* is marked deleted, also when it was marked already
PendingDelete_Mut(i, acc) ==
    IF prev[i].urn \in acc.deletes THEN acc
    ELSE [dels |-> Append(acc.dels, NewDeleteReplacementStep(i, TRUE)),
          deletes |-> acc.deletes \cup {prev[i].urn}]
PendingDelete(i, acc) ==
    [dels |-> Append(acc.dels, NewDeleteReplacementStep(i, TRUE)),
     deletes |-> acc.deletes \cup {prev[i].urn}]

\* lines 305-344: the backwards walk over the snapshot
RECURSIVE DeletesFrom(_, _)
DeletesFrom(i, acc) ==
    IF i < 1 THEN acc
    ELSE IF prev[i].delete
         THEN DeletesFrom(i - 1, PendingDelete(i, acc))
         ELSE IF ShouldDelete(prev[i].urn, acc.deletes)
         THEN DeletesFrom(i - 1,
                [dels |-> Append(acc.dels, NewDeleteStep(i)),
                 deletes |-> acc.deletes \cup {prev[i].urn}])
         ELSE DeletesFrom(i - 1, acc)

\* GenerateDeletes(): lines 299-348
GenerateDeletes ==
    /\ phase = "registering"
    /\ LET r == DeletesFrom(Len(prev), [dels |-> <<>>, deletes |-> deletes])
       IN  /\ steps' = r.dels
           /\ deletes' = r.deletes
    /\ err' = "none"
    /\ diags' = <<>>
    /\ call' = [NoCall EXCEPT !.op = "GenerateDeletes"]
    /\ phase' = "done"
    /\ UNCHANGED <<prev, refresh, urns, creates, sames, updates, replaces,
                   ncalls, seen, cascaded>>
    /\ UNCHANGED mpvars

\* newStepGenerator(plan, opts): empty sets
NewSets ==
    /\ urns = {}
    /\ creates = {}
    /\ sames = {}
    /\ updates = {}
    /\ replaces = {}
    /\ deletes = {}
    /\ steps = <<>>
    /\ err = "none"
    /\ diags = <<>>
    /\ call = NoCall
    /\ phase = "registering"
    /\ ncalls = 0
    /\ seen = {}
    /\ cascaded = [i \in 1..Len(prev) |-> 0]

\* a plan over any previous snapshot, a refresh or an update
InitSG ==
    /\ prev \in Snapshots
    /\ refresh \in BOOLEAN
    /\ NewSets

Register == \E goal \in Goals : GenerateSteps(goal)

NextSG == Register \/ GenerateDeletes

(* ======================== the provider registry ======================= *)
\* most calls made on one meta-provider
MaxRequests == 3
\* most calls made on one meta-provider when progress is checked
MaxLiveRequests == 2

Callers == {"c1", "c2"}
\* provider URNs: urn.Type().Name() is the package, two providers of it
Packages == {"aws"}
PURNs == [pkg : Packages, name : {"p", "q"}]
Nil == "nil"

\* property values: a string, a computed (unknown) value, a number
Str(s) == [kind |-> "string", s |-> s]
Computed == [kind |-> "computed", s |-> ""]
Num == [kind |-> "number", s |-> ""]
IsString(v) == v.kind = "string"
IsComputed(v) == v.kind = "computed"

Keys == {"version", "region"}
ValuesFor(k) ==
    IF k = "version" THEN {Str("1.2.3"), Str("bogus"), Num}
    ELSE {Str("us"), Computed, Num}
\* a PropertyMap: nil, or a map from keys to values
NilMap == [nil |-> TRUE, m |-> <<>>]
Map(f) == [nil |-> FALSE, m |-> f]
\* the non-nil property maps
PropMaps ==
    { Map(f) : f \in UNION { { g \in [K -> UNION { ValuesFor(k) : k \in Keys }] :
                               \A k \in K : g[k] \in ValuesFor(k) } :
                             K \in SUBSET Keys } }

NoURN == [pkg |-> "", name |-> ""]
NoVersion == <<>>
NoProvider == [kind |-> "nil", id |-> 0]

\* semver.ParseTolerant
ParseTolerant(s) ==
    IF s = "1.2.3" THEN [ok |-> TRUE, v |-> <<1, 2, 3>>]
    ELSE [ok |-> FALSE, v |-> <<0, 0, 0>>]

CheckFailure(property, reason) == [property |-> property, reason |-> reason]

\* loadProvider, lines 89-108: the failures of the "version" property
VersionFailures(properties) ==
    IF "version" \notin DOMAIN properties THEN <<>>
    ELSE IF ~IsString(properties["version"])
    THEN << CheckFailure("version", "'version' must be a string") >>
    ELSE IF ~ParseTolerant(properties["version"].s).ok
    THEN << CheckFailure("version", "could not parse provider version") >>
    ELSE <<>>

\* the requested version (nil when there is none)
RequestedVersion(properties) ==
    IF "version" \in DOMAIN properties /\ IsString(properties["version"])
    THEN ParseTolerant(properties["version"].s).v
    ELSE NoVersion

ConfigFailures_Mut(properties, k, allowUnknowns) ==
    IF k \notin DOMAIN properties THEN <<>>
    ELSE IF IsComputed(properties[k]) /\ ~allowUnknowns
    THEN << CheckFailure(k, "provider properties must not be unknown") >>
    ELSE <<>>

\* loadProvider, lines 113-137: the failure of configuration property k
ConfigFailures(properties, k, allowUnknowns) ==
    IF k \notin DOMAIN properties THEN <<>>
    ELSE IF IsComputed(properties[k])
    THEN IF ~allowUnknowns
         THEN << CheckFailure(k, "provider properties must not be unknown") >>
         ELSE <<>>
    ELSE IF IsString(properties[k]) THEN <<>>
    ELSE << CheckFailure(k, "provider property values must be strings") >>

\* line 126: a computed value, with unknowns allowed, asks for the shim
UseShim(properties, allowUnknowns) ==
    \E k \in DOMAIN properties \ {"version"} :
        IsComputed(properties[k]) /\ allowUnknowns

\* lines 128-130: the configuration map, keyed by (package, property)
ConfigMap(urn, properties) ==
    [ key \in { <<urn.pkg, k>> : k \in { x \in DOMAIN properties \ {"version"} :
                                          IsString(properties[x]) } } |->
        properties[key[2]].s ]

\* lines 89-142: all the validation failures of a configuration
Failures(properties, allowUnknowns) ==
    VersionFailures(properties) \o ConfigFailures(properties, "region", allowUnknowns)

NoRequest == [urn |-> NoURN, properties |-> NilMap, allowUnknowns |-> FALSE]
NoServed == [caller |-> Nil, urn |-> NoURN, properties |-> NilMap,
             allowUnknowns |-> FALSE]
NoResponse == [provider |-> NoProvider, failures |-> <<>>, err |-> Nil]
Response(provider, failures, e) ==
    [provider |-> provider, failures |-> failures, err |-> e]
ErrMissingProvider == "provider not found"

Plugin(id) == [kind |-> "plugin", id |-> id]
\* GetPluginInfo of a plugin the host loaded
PluginInfo(id) == [name |-> plugins[id].pkg, version |-> plugins[id].version]
Shim_Mut(pkg, info) ==
    [kind |-> "shim", pkg |-> pkg, info |-> [name |-> pkg, version |-> NoVersion]]
\* lines 169-172: the shim carries the package and the plugin's information
Shim(pkg, info) == [kind |-> "shim", pkg |-> pkg, info |-> info]
\* shimProvider.GetPluginInfo, lines 418-420
shimGetPluginInfo(p) == p.info

\* host.Provider(pkg, version): a new plugin instance
NewPlugin(urn, pkg, version) ==
    [urn |-> urn, pkg |-> pkg, version |-> version, configured |-> 0,
     cfg |-> <<>>, closed |-> 0]

\* host.CloseProvider(provider)
CloseProvider(ps, id) == [ps EXCEPT ![id].closed = @ + 1]

StoreRecord_Mut(table, urn, properties, resp) ==
    IF Len(resp.failures) = 0 /\ resp.err = Nil /\ resp.provider.kind = "plugin"
    THEN (urn :> [properties |-> properties.m, provider |-> resp.provider]) @@ table
    ELSE table

\* lines 232-237: the record is stored when there are no failures and no error
StoreRecord(table, urn, properties, resp) ==
    IF Len(resp.failures) = 0 /\ resp.err = Nil
    THEN (urn :> [properties |-> properties.m, provider |-> resp.provider]) @@ table
    ELSE table

Lookup_Mut(table, urn) ==
    IF urn \notin DOMAIN table THEN Response(NoProvider, <<>>, Nil)
    ELSE Response(table[urn].provider, <<>>, Nil)

\* lines 222-228: a request with nil properties is a lookup
Lookup(table, urn) ==
    IF urn \notin DOMAIN table THEN Response(NoProvider, <<>>, ErrMissingProvider)
    ELSE Response(table[urn].provider, <<>>, Nil)

DuplicateLoad_Mut(table, urn) ==
    urn \in DOMAIN table /\ table[urn].provider.kind = "plugin"
\* serve, lines 222 and 230: contract.Assert(!ok) fails when the table has a
\* record for the URN of a load request
DuplicateLoad(table, urn) == urn \in DOMAIN table

\* metaProvider.loadProvider, lines 270-283: a caller makes a request (Check
\* with a configuration, or getProvider with none) and waits on its own
\* reply channel while a goroutine sends the request
CallLoadProvider(c, urn, properties, allowUnknowns) ==
    /\ cpc[c] = "idle"
    /\ nreq < MaxRequests
    /\ spc # "panicked"
    /\ cpc' = [cpc EXCEPT ![c] = "sending"]
    /\ creq' = [creq EXCEPT ![c] = [urn |-> urn, properties |-> properties,
                                    allowUnknowns |-> allowUnknowns]]
    /\ cres' = [cres EXCEPT ![c] = NoResponse]
    /\ nreq' = nreq + 1
    /\ UNCHANGED <<providers, plugins, hostLoads, issued, spc, sreq,
                   sprov, sresp>>
    /\ UNCHANGED sgvars

\* metaProvider.Check(urn, olds, news, allowUnknowns)
Check(c) ==
    \E urn \in PURNs, news \in PropMaps :
        \* allowUnknowns is read only when a value is computed (line 119)
        \E allowUnknowns \in IF \E k \in DOMAIN news.m : IsComputed(news.m[k])
                              THEN BOOLEAN ELSE {FALSE} :
            CallLoadProvider(c, urn, news, allowUnknowns)

\* metaProvider.getProvider(urn)
getProvider(c) ==
    \E urn \in PURNs : CallLoadProvider(c, urn, NilMap, FALSE)

\* serve, line 221: the serving task receives the next request
Receive(c) ==
    /\ spc = "idle"
    /\ cpc[c] = "sending"
    /\ spc' = "received"
    /\ sreq' = [caller |-> c, urn |-> creq[c].urn,
                properties |-> creq[c].properties,
                allowUnknowns |-> creq[c].allowUnknowns]
    /\ cpc' = [cpc EXCEPT ![c] = "waiting"]
    /\ UNCHANGED <<providers, plugins, hostLoads, issued, creq, cres, sprov,
                   sresp, nreq>>
    /\ UNCHANGED sgvars

\* serve, lines 223-228: a lookup
ServeLookup ==
    /\ spc = "received"
    /\ sreq.properties.nil
    /\ sresp' = Lookup(providers, sreq.urn)
    /\ spc' = "replying"
    /\ UNCHANGED <<providers, plugins, hostLoads, issued, cpc, creq, cres,
                   sreq, sprov, nreq>>
    /\ UNCHANGED sgvars

\* loadProvider returned: lines 232-243
Loaded(resp, ps) ==
    /\ providers' = StoreRecord(providers, sreq.urn, sreq.properties, resp)
    /\ sresp' = resp
    /\ plugins' = ps
    /\ spc' = "replying"

\* serve, lines 230-231, and loadProvider up to host.Provider: the assertion,
\* the validation of the configuration, the request to the plugin host
ServeLoad ==
    /\ spc = "received"
    /\ ~sreq.properties.nil
    /\ IF DuplicateLoad(providers, sreq.urn)
       THEN /\ spc' = "panicked"
            /\ UNCHANGED <<providers, plugins, hostLoads, sprov, sresp>>
       ELSE LET failures == Failures(sreq.properties.m, sreq.allowUnknowns)
            IN  IF Len(failures) # 0
                THEN /\ Loaded(Response(NoProvider, failures, Nil), plugins)
                     /\ UNCHANGED <<hostLoads, sprov>>
                ELSE /\ hostLoads' = [hostLoads EXCEPT ![sreq.urn] = @ + 1]
                     /\ \E hostErr \in BOOLEAN :
                          IF hostErr
                          THEN /\ Loaded(Response(NoProvider, <<>>, "host"), plugins)
                               /\ UNCHANGED sprov
                          ELSE /\ plugins' = Append(plugins,
                                     NewPlugin(sreq.urn, sreq.urn.pkg,
                                               RequestedVersion(sreq.properties.m)))
                               /\ sprov' = Len(plugins) + 1
                               /\ spc' = IF UseShim(sreq.properties.m, sreq.allowUnknowns)
                                         THEN "shim" ELSE "configure"
                               /\ UNCHANGED <<providers, sresp>>
    /\ UNCHANGED <<issued, cpc, creq, cres, sreq, nreq>>
    /\ UNCHANGED sgvars

loadProviderRaw_Mut(ps, id, cfg, cfgErr, closeErr) ==
    LET configured == [ps EXCEPT ![id].configured = @ + 1, ![id].cfg = cfg]
    IN  IF cfgErr
        THEN [plugins |-> CloseProvider(configured, id),
              resp |-> Response(NoProvider, <<>>,
                                IF closeErr THEN "close" ELSE "configure")]
        ELSE [plugins |-> configured, resp |-> Response(Plugin(id), <<>>, Nil)]

\* loadProviderRaw, lines 72-81: Configure; a failure closes the plugin, and
\* an error of that close is logged and dropped
loadProviderRaw(ps, id, cfg, cfgErr, closeErr) ==
    LET configured == [ps EXCEPT ![id].configured = @ + 1, ![id].cfg = cfg]
    IN  IF cfgErr
        THEN [plugins |-> CloseProvider(configured, id),
              resp |-> Response(NoProvider, <<>>, "configure")]
        ELSE [plugins |-> configured, resp |-> Response(Plugin(id), <<>>, Nil)]

Configure ==
    /\ spc = "configure"
    /\ \E cfgErr \in BOOLEAN, closeErr \in BOOLEAN :
         LET r == loadProviderRaw(plugins, sprov,
                                  ConfigMap(sreq.urn, sreq.properties.m),
                                  cfgErr, closeErr)
         IN  Loaded(r.resp, r.plugins)
    /\ UNCHANGED <<hostLoads, issued, cpc, creq, cres, sreq, sprov, nreq>>
    /\ UNCHANGED sgvars

\* loadProvider, lines 157-174: the shim; the plugin is closed on return
LoadShim ==
    /\ spc = "shim"
    /\ \E infoErr \in BOOLEAN :
         IF infoErr
         THEN Loaded(Response(NoProvider, <<>>, "info"), CloseProvider(plugins, sprov))
         ELSE Loaded(Response(Shim(sreq.urn.pkg, PluginInfo(sprov)), <<>>, Nil),
                     CloseProvider(plugins, sprov))
    /\ UNCHANGED <<hostLoads, issued, cpc, creq, cres, sreq, sprov, nreq>>
    /\ UNCHANGED sgvars

ResponseChannel_Mut(req) == CHOOSE c \in Callers : TRUE
\* lines 273 and 281: every request carries the reply channel its caller
\* made for it and waits on
ResponseChannel(req) == req.caller

\* serve, lines 225-227 and 239-243, and loadProvider, lines 284-286: the
\* reply reaches the caller that made the request
Reply ==
    /\ spc = "replying"
    /\ cres' = [cres EXCEPT ![ResponseChannel(sreq)] = sresp]
    /\ cpc' = [cpc EXCEPT ![ResponseChannel(sreq)] = "idle"]
    /\ creq' = [creq EXCEPT ![ResponseChannel(sreq)] = NoRequest]
    /\ spc' = "idle"
    /\ sreq' = NoServed
    /\ sprov' = 0
    /\ sresp' = NoResponse
    /\ issued' = IF ~sreq.properties.nil /\ Len(sresp.failures) = 0
                    /\ sresp.err = Nil
                 THEN (sreq.urn :> sresp.provider) @@ issued ELSE issued
    /\ UNCHANGED <<providers, plugins, hostLoads, nreq>>
    /\ UNCHANGED sgvars

\* newMetaProvider(host): an empty table, the serving task started
InitMP ==
    /\ providers = <<>>
    /\ plugins = <<>>
    /\ hostLoads = [u \in PURNs |-> 0]
    /\ issued = <<>>
    /\ cpc = [c \in Callers |-> "idle"]
    /\ creq = [c \in Callers |-> NoRequest]
    /\ cres = [c \in Callers |-> NoResponse]
    /\ spc = "idle"
    /\ sreq = NoServed
    /\ sprov = 0
    /\ sresp = NoResponse
    /\ nreq = 0

\* the step generator of a plan with no previous snapshot, not used
IdleSG ==
    /\ prev = <<>>
    /\ refresh = FALSE
    /\ NewSets

NextMP ==
    \/ \E c \in Callers : Check(c)
    \/ \E c \in Callers : getProvider(c)
    \/ \E c \in Callers : Receive(c)
    \/ ServeLookup
    \/ ServeLoad
    \/ Configure
    \/ LoadShim
    \/ Reply

InitPlan == InitSG /\ InitMP
InitRegistry == IdleSG /\ InitMP

SpecSG == InitPlan /\ [][NextSG]_vars
SpecMP == InitRegistry /\ [][NextMP]_vars

\* the serving task is a goroutine that keeps running (every plugin-host call
\* terminates), and a sender blocked on loadRequests is received when the
\* serving task keeps coming back to its receive
ServeStep == ServeLookup \/ ServeLoad \/ Configure \/ LoadShim \/ Reply
\* the registry with at most MaxLiveRequests calls made on it
NextLive == NextMP /\ nreq' <= MaxLiveRequests
FairSpecMP ==
    /\ InitRegistry /\ [][NextLive]_vars
    /\ WF_vars(ServeStep)
    /\ \A c \in Callers : SF_vars(Receive(c))

(* ====================== properties of the step generator ============== *)
IsDeleteStep(s) == s.op \in {"Delete", "DeleteReplacement"}
HasEntry(urn) == \E i \in 1..Len(prev) : prev[i].urn = urn
DispositionSets == << creates, sames, updates, replaces, deletes >>

\* C1: when GenerateSteps is called for a URN that an earlier call of the
\* plan was made for, the call records a duplicate-URN diagnostic, returns
\* an error (the validation error, unless a hard error came first) with no
\* steps, and the URN is in the urns set.
C1_DuplicateRejected ==
    (call.op = "GenerateSteps" /\ call.again) =>
        /\ \E k \in 1..Len(diags) :
             diags[k] = [kind |-> "duplicate", urn |-> call.urn]
        /\ err \in {"validation", "provider", "check", "analyzer"}
        /\ steps = <<>>
        /\ call.urn \in urns

\* C2: a snapshot entry that a delete-before-replace cascade gave a
\* DeleteReplacement step, and whose URN is still marked in deletes, is given
\* no further cascade delete step by the later registration of another
\* resource it depends on.
C2_NoSecondCascadeDelete ==
    [][ \A i \in 1..Len(prev) :
          (cascaded[i] >= 1 /\ prev[i].urn \in deletes /\ ~call'.again)
              => cascaded'[i] = cascaded[i] ]_vars

\* C3: a registration whose diff requires replacement with
\* delete-before-replace returns, in this order: DeleteReplacement steps for
\* the transitive dependents of the old resource in reverse of the dependency
\* graph's order (every dependent whose URN was not already marked deleted
\* is deleted before the resource), then DeleteReplacement, Replace,
\* CreateReplacement for the resource itself; every delete step precedes the
\* create step and the URN is recorded in replaces.
DBRCall ==
    /\ call.op = "GenerateSteps"
    /\ err = "none"
    /\ call.diff.changes = "some"
    /\ Replace(call.diff)
    /\ call.diff.dbr

C3_DeleteBeforeReplaceOrder ==
    [][ DBRCall' =>
          LET deps == DependingOn(call'.old)
              n == Len(steps') - 3
          IN  /\ n >= 0
              /\ \A i \in 1..Len(deps) :
                   prev[deps[i]].urn \notin deletes =>
                     \E k \in 1..n :
                       /\ steps'[k].op = "DeleteReplacement"
                       /\ steps'[k].urn = prev[deps[i]].urn
              /\ \A k \in 1..n :
                   /\ steps'[k].op = "DeleteReplacement"
                   /\ \E i \in 1..Len(deps) : deps[i] = steps'[k].old
              /\ \A j, k \in 1..n : j < k => steps'[j].old > steps'[k].old
              /\ steps'[n + 1] = NewDeleteReplacementStep(call'.old, FALSE)
              /\ steps'[n + 2] = NewReplaceStep(call'.urn, call'.old, FALSE)
              /\ steps'[n + 3] = NewCreateReplacementStep(call'.urn, call'.old, FALSE)
              /\ call'.urn \in replaces' ]_vars

\* C6: a valid registration whose URN has no entry in the previous snapshot
\* yields exactly one Create step and its URN is in creates and in none of
\* sames, updates, replaces, deletes.
C6_CreateOnly ==
    (call.op = "GenerateSteps" /\ call.valid /\ ~HasEntry(call.urn)) =>
        /\ err = "none"
        /\ steps = << NewCreateStep(call.urn) >>
        /\ call.urn \in creates
        /\ call.urn \notin sames \cup updates \cup replaces \cup deletes

C6_Witness ==
    /\ call.op = "GenerateSteps" /\ call.valid /\ ~HasEntry(call.urn)
    /\ Len(prev) > 0

\* C7 as stated: in a non-refresh plan, a successful registration whose URN
\* has prior state and whose checked inputs equal the previous inputs yields
\* exactly one Same step, is recorded in sames, and Diff is not called.
SameInputsCall ==
    /\ ~refresh
    /\ call.op = "GenerateSteps"
    /\ call.valid
    /\ call.hasOld
    /\ call.inputs = prev[call.old].inputs

C7_Original ==
    (SameInputsCall /\ err = "none") =>
        /\ steps = << NewSameStep(call.urn, call.old) >>
        /\ call.urn \in sames
        /\ ~call.diffCalled

\* C7 amended: in a non-refresh plan, a valid registration whose URN has
\* prior state, whose checked inputs equal the previous inputs and whose URN
\* was not marked deleted by an earlier delete-before-replace cascade of this
\* plan (the registration is not recreating) yields exactly one Same step, is
\* recorded in sames, and the provider's Diff is not called.
C7_SameWithoutDiff ==
    (SameInputsCall /\ ~call.recreating) =>
        /\ err = "none"
        /\ steps = << NewSameStep(call.urn, call.old) >>
        /\ call.urn \in sames
        /\ ~call.diffCalled

C7_Witness == SameInputsCall /\ ~call.recreating /\ call.custom

\* the last call was a registration whose diff asked for a replacement
\* without delete-before-replace
CBDDiff ==
    /\ call.op = "GenerateSteps"
    /\ call.valid
    /\ call.diff.changes = "some"
    /\ Replace(call.diff)
    /\ ~call.diff.dbr
CBDCall == CBDDiff /\ err = "none"

RECURSIVE PlainDeletes(_)
PlainDeletes(s) ==
    IF s = <<>> THEN <<>>
    ELSE IF Head(s).op = "Delete" THEN << Head(s).old >> \o PlainDeletes(Tail(s))
    ELSE PlainDeletes(Tail(s))

\* C9: GenerateDeletes emits exactly one ordinary Delete step for every
\* snapshot entry that is not pending deletion and whose URN is, when
\* GenerateDeletes is called, in none of sames, updates, replaces, deletes;
\* none for any other entry; in reverse of the snapshot's stored order.
C9_DeletesUnregistered ==
    [][ (phase = "registering" /\ phase' = "done") =>
          LET want == { i \in 1..Len(prev) :
                          /\ ~prev[i].delete
                          /\ prev[i].urn \notin
                               sames \cup updates \cup replaces \cup deletes }
              got == PlainDeletes(steps')
          IN  /\ { got[k] : k \in 1..Len(got) } = want
              /\ \A j, k \in 1..Len(got) : j < k => got[j] > got[k] ]_vars

\* C10 as stated: GenerateDeletes emits no delete step of any kind for a
\* snapshot entry whose URN is in sames, updates or replaces.
C10_Original ==
    call.op = "GenerateDeletes" =>
        \A k \in 1..Len(steps) :
            IsDeleteStep(steps[k]) =>
                steps[k].urn \notin sames \cup updates \cup replaces

\* C10 amended: the only delete steps GenerateDeletes emits for a URN in
\* sames, updates or replaces are the DeleteReplacement steps of snapshot
\* entries already pending deletion; an entry that is not pending deletion
\* gets no delete step.
C10_KeptNotDeleted ==
    call.op = "GenerateDeletes" =>
        \A k \in 1..Len(steps) :
            (IsDeleteStep(steps[k])
               /\ steps[k].urn \in sames \cup updates \cup replaces)
              => /\ steps[k].op = "DeleteReplacement"
                 /\ steps[k].flag
                 /\ prev[steps[k].old].delete

C10_Witness ==
    /\ call.op = "GenerateDeletes"
    /\ \E i \in 1..Len(prev) :
         /\ ~prev[i].delete
         /\ prev[i].urn \in replaces
    /\ \E k \in 1..Len(steps) :
         steps[k].urn \in sames \cup updates \cup replaces


\* the last call was a valid registration with prior state whose diff
\* reported a change that does not require replacement
UpdateCall ==
    /\ call.op = "GenerateSteps"
    /\ call.valid
    /\ call.hasOld
    /\ ~call.recreating
    /\ call.diff.changes = "some"
    /\ ~Replace(call.diff)

\* C11: a registration with prior state whose diff reports a change that
\* does not require replacement yields exactly one Update step and its URN
\* is in updates and in none of creates, sames, replaces, deletes.
C11_UpdateOnly ==
    UpdateCall =>
        /\ err = "none"
        /\ steps = << NewUpdateStep(call.urn, call.old) >>
        /\ call.urn \in updates
        /\ call.urn \notin creates \cup sames \cup replaces \cup deletes

\* the number of diagnostics of one kind
CountDiags(kind) == Cardinality({ k \in 1..Len(diags) : diags[k].kind = kind })
CountFailures(failures, isProperty) ==
    Cardinality({ k \in 1..Len(failures) : (failures[k] # "") = isProperty })
\* the failures the analyzers reported before one of them failed
RECURSIVE AnalyzerFailures(_, _)
AnalyzerFailures(outs, i) ==
    IF i > Len(outs) \/ outs[i].res # "ok" THEN 0
    ELSE outs[i].failures + AnalyzerFailures(outs, i + 1)
AnalyzerHardError(outs) == \E i \in 1..Len(outs) : outs[i].res # "ok"
\* the last call was a registration whose Check, second Check or analyzers
\* reported failures
FailuresReported ==
    /\ call.op = "GenerateSteps"
    /\ \/ Len(call.checkFailures) > 0
       \/ Len(call.recheckFailures) > 0
       \/ AnalyzerFailures(call.analyzed, 1) > 0

\* C17 as stated: a registration whose Check or analyzers reported failures
\* returns the validation error and no steps.
C17_Original ==
    FailuresReported => (err = "validation" /\ steps = <<>>)

\* C17 amended: a registration whose Check or analyzers reported failures
\* emits one diagnostic for every check failure (a property diagnostic when
\* the failure names a property, a resource diagnostic otherwise) and one for
\* every failure of every analyzer that ran, all in that order, and returns
\* no steps; it returns the validation error unless an analyzer could not be
\* loaded or its Analyze call failed, in which case that error is returned
\* after the diagnostics already emitted.
C17_AllFailuresReported ==
    FailuresReported =>
        LET fs == call.checkFailures \o call.recheckFailures
        IN  /\ steps = <<>>
            /\ err = IF AnalyzerHardError(call.analyzed) THEN "analyzer" ELSE "validation"
            /\ CountDiags("invalidProperty") = CountFailures(fs, TRUE)
            /\ CountDiags("invalidResource") = CountFailures(fs, FALSE)
            /\ CountDiags("analyze") = AnalyzerFailures(call.analyzed, 1)
            /\ \A j, k \in 1..Len(diags) :
                 (diags[j].kind = "analyze" /\ j < k) =>
                     diags[k].kind = "analyze" \/ Len(call.recheckFailures) > 0
            /\ \A k \in 1..Len(diags) : diags[k].urn = call.urn

\* a registration with two check failures and two analyzer failures
C17_Witness ==
    /\ FailuresReported
    /\ Len(call.checkFailures) = 2
    /\ AnalyzerFailures(call.analyzed, 1) = 2
    /\ Len(diags) = 4

\* the last call was a valid registration of a URN marked deleted: it passed
\* validation and reached the three-way decision of lines 155-297
RecreatingCall == call.op = "GenerateSteps" /\ call.valid /\ call.recreating

\* C18: a valid registration of a URN that a delete-before-replace cascade
\* marked deleted returns exactly [Replace, CreateReplacement], takes the URN
\* out of deletes and puts it in replaces, computes no diff, and its Check,
\* when the resource has a provider, was given no old inputs and the goal's
\* raw properties.
C18_RecreateSteps ==
    RecreatingCall =>
        /\ err = "none"
        /\ steps = RecreateSteps(call.urn, call.old)
        /\ call.urn \notin deletes
        /\ call.urn \in replaces
        /\ ~call.diffCalled /\ call.diff = NoDiff
        /\ call.checked => (call.checkOlds = NoProps /\ call.checkNews = call.props)

\* C19: in a refresh plan no registration reaches the recreating branch, so
\* the assertion of line 158 (the plan is not a refresh) never fails.
C19_RefreshNeverRecreates ==
    refresh => ~(RecreatingCall /\ call.hasOld)

DiffReturned ==
    /\ call.op = "GenerateSteps"
    /\ call.valid
    /\ call.hasOld
    /\ ~call.recreating
    /\ ~call.diff.err

\* C21: the change indicator a registration acts on is None or Some: an
\* Unknown answer of the provider's Diff is acted on as Some, None and Some
\* are acted on as they are, and any other value makes the call return the
\* "unrecognized diff state" error with no steps and every disposition set
\* as it was before the call.
C21_NormalizedDiff ==
    [][ DiffReturned' =>
          /\ call'.provChanges = "unknown" => call'.diff.changes = "some"
          /\ call'.provChanges \in {"none", "some"} =>
                call'.diff.changes = call'.provChanges
          /\ IF call'.diff.changes \in {"none", "some"}
             THEN /\ err' # "unrecognized diff state"
                  /\ call'.diff.changes = "none" =>
                        (steps' = << NewSameStep(call'.urn, call'.old) >> /\ err' = "none")
                  /\ (call'.diff.changes = "some" /\ err' = "none") =>
                        /\ steps' # <<>>
                        /\ \A k \in 1..Len(steps') : steps'[k].op # "Same"
             ELSE /\ err' = "unrecognized diff state"
                  /\ steps' = <<>>
                  /\ DispositionSets' = DispositionSets ]_vars

\* the provider answered Unknown and the registration was acted on as a change
C21_Witness ==
    /\ DiffReturned
    /\ call.provChanges = "unknown"
    /\ err = "none"
    /\ \E k \in 1..Len(steps) : steps[k].op = "Update"

\* the last call was a valid registration of a logical (providerless)
\* resource that has old state
LogicalCall ==
    /\ call.op = "GenerateSteps"
    /\ call.valid
    /\ ~call.custom
    /\ call.hasOld

\* C22 as stated: a valid registration of a logical resource with old state
\* gets "some change" from the diff and exactly one Update step.
C22_Original ==
    LogicalCall =>
        /\ call.diff.changes = "some"
        /\ steps = << NewUpdateStep(call.urn, call.old) >>

\* C22 amended: a valid registration of a logical resource with old state
\* never reaches the provider's Diff.  When its URN was not marked deleted
\* earlier in the plan, the diff reports "some change" exactly when the
\* compared properties (outputs in a refresh, inputs otherwise) differ from
\* the old ones, and the registration then yields exactly one Update step and
\* is recorded in updates; when they are equal the diff reports "no change"
\* and the registration yields exactly one Same step and is recorded in
\* sames.  When its URN was marked deleted it is recreated: [Replace,
\* CreateReplacement] and recorded in replaces, or the assertion failure of
\* a refresh plan.
C22_LogicalUpdateOrSame ==
    LogicalCall =>
        /\ ~call.diffCalled
        /\ ~call.checked
        /\ IF call.recreating
           THEN IF refresh
                THEN err = "panic" /\ steps = <<>>
                ELSE /\ err = "none"
                     /\ steps = RecreateSteps(call.urn, call.old)
                     /\ call.urn \in replaces
           ELSE /\ err = "none"
                /\ IF hasChanges(prev[call.old].inputs, prev[call.old].outputs,
                                 call.inputs, call.outputs)
                   THEN /\ call.diff.changes = "some"
                        /\ steps = << NewUpdateStep(call.urn, call.old) >>
                        /\ call.urn \in updates
                   ELSE /\ call.diff.changes = "none"
                        /\ steps = << NewSameStep(call.urn, call.old) >>
                        /\ call.urn \in sames

\* a logical resource with changed properties was given its Update step
C22_Witness ==
    /\ LogicalCall
    /\ ~call.recreating
    /\ call.diff.changes = "some"
    /\ steps = << NewUpdateStep(call.urn, call.old) >>

\* the steps of the last call that delete snapshot entry i as pending
PendingDeleteSteps(i) ==
    { k \in 1..Len(steps) : steps[k] = NewDeleteReplacementStep(i, TRUE) }

\* C23: GenerateDeletes emits exactly one pending-delete DeleteReplacement
\* step for every snapshot entry flagged pending-delete, and none for any
\* other entry, and every such entry's URN is in deletes afterwards, whatever
\* sets the URN was in before.
C23_PendingDeleted ==
    call.op = "GenerateDeletes" =>
        \A i \in 1..Len(prev) :
            IF prev[i].delete
            THEN /\ Cardinality(PendingDeleteSteps(i)) = 1
                 /\ prev[i].urn \in deletes
            ELSE PendingDeleteSteps(i) = {}

\* GenerateDeletes has run over a pending-delete entry that a cascade had
\* already deleted and marked
C23_Witness ==
    /\ call.op = "GenerateDeletes"
    /\ \E i \in 1..Len(prev) :
          /\ prev[i].delete
          /\ cascaded[i] > 0
          /\ PendingDeleteSteps(i) # {}

\* the URN is in two of the five disposition sets
InTwoSets(u) ==
    \E i, j \in 1..5 :
        i < j /\ u \in DispositionSets[i] /\ u \in DispositionSets[j]
HasPendingEntry(u) == \E i \in 1..Len(prev) : prev[i].delete /\ prev[i].urn = u
CascadeDeleted(u) == \E i \in 1..Len(prev) : prev[i].urn = u /\ cascaded[i] > 0
\* some URN was registered more than once, and u was registered
RegisteredAgain(u) == u \in seen /\ Cardinality(seen) < ncalls

\* C25 as stated: after the registrations and GenerateDeletes the five
\* disposition sets are pairwise disjoint.
C25_Original ==
    phase = "done" => \A u \in URNs : ~InTwoSets(u)

\* C25 amended: creates is always disjoint from sames, updates and replaces;
\* a URN is in two of sames, updates and replaces only when it was
\* registered more than once; and a URN of deletes is in another set only
\* when the snapshot holds a pending-delete entry of it (which
\* GenerateDeletes or a cascade deleted) or a delete-before-replace cascade
\* deleted its entry.
C25_SetOverlaps ==
    /\ creates \cap (sames \cup updates \cup replaces) = {}
    /\ \A u \in (sames \cap updates) \cup (sames \cap replaces)
                   \cup (updates \cap replaces) : RegisteredAgain(u)
    /\ \A u \in deletes \cap (creates \cup sames \cup updates \cup replaces) :
          HasPendingEntry(u) \/ CascadeDeleted(u)

\* the plan ended with a kept URN also in deletes, its pending-delete copy
\* having been deleted by GenerateDeletes
C25_Witness ==
    /\ phase = "done"
    /\ \E u \in deletes \cap sames : HasPendingEntry(u) /\ ~CascadeDeleted(u)

\* C26: once a Same, Update or Create step has been emitted for a URN (the
\* URN is then in sames, updates or creates), no later GenerateSteps call
\* emits a delete step for that URN; stated for the calls that register a
\* URN for the first time, so that only a cascade can emit the step.
C26_KeptNotCondemned ==
    [][ (call'.op = "GenerateSteps" /\ ~call'.again) =>
          \A k \in 1..Len(steps') :
              IsDeleteStep(steps'[k]) =>
                  steps'[k].urn \notin (sames \cup updates \cup creates) ]_vars

\* C27: a GenerateSteps call that returns an error returns no steps and
\* leaves the five disposition sets as they were before the call.
C27_ErrorLeavesSets ==
    [][ (call'.op = "GenerateSteps" /\ err' \notin {"none", "panic"}) =>
          /\ steps' = <<>>
          /\ DispositionSets' = DispositionSets ]_vars

\* snapshot entry i was given a delete step: by a cascade during the
\* registrations or by GenerateDeletes, whose steps are the last returned
EntryDeleted(i) ==
    \/ cascaded[i] > 0
    \/ \E k \in 1..Len(steps) : IsDeleteStep(steps[k]) /\ steps[k].old = i

\* C28: when every registration succeeded and GenerateDeletes has run, every
\* snapshot entry that is not pending deletion and whose URN was never
\* registered has been given a delete step, and its URN is in deletes.
C28_UnregisteredDeleted ==
    phase = "done" =>
        \A i \in 1..Len(prev) :
            (Live(i) /\ prev[i].urn \notin seen) =>
                (EntryDeleted(i) /\ prev[i].urn \in deletes)

(* ==================== properties of the provider registry ============= *)
\* the serving task answers a lookup in this step
LookupServed == spc = "received" /\ sreq.properties.nil /\ spc' = "replying"
\* the reply to a lookup reaches its caller in this step
LookupReplied == spc = "replying" /\ sreq.properties.nil /\ spc' = "idle"
\* the plugins the host loaded for urn and has not closed
OpenPlugins(urn) ==
    { i \in 1..Len(plugins) : plugins[i].urn = urn /\ plugins[i].closed = 0 }

\* C4: once a load of URN U has returned a handle, every later lookup of U
\* returns that same handle with no error, and neither Configure nor the
\* plugin host is invoked for it (no plugin is ever configured twice); a
\* lookup of a URN no load has succeeded for returns ErrMissingProvider and
\* no handle.
C4_LookupReturnsLoaded ==
    [][ /\ \A i \in 1..Len(plugins') : plugins'[i].configured <= 1
        /\ LookupServed => plugins' = plugins /\ hostLoads' = hostLoads
        /\ LookupReplied =>
             /\ plugins' = plugins
             /\ IF sreq.urn \in DOMAIN issued
                THEN cres'[sreq.caller] = Response(issued[sreq.urn], <<>>, Nil)
                ELSE cres'[sreq.caller] =
                         Response(NoProvider, <<>>, ErrMissingProvider) ]_vars

\* a lookup of a loaded and once-configured plugin is about to return it
C4_Witness ==
    /\ spc = "replying"
    /\ sreq.properties.nil
    /\ sreq.urn \in DOMAIN issued
    /\ sresp.provider = issued[sreq.urn]
    /\ sresp.provider.kind = "plugin"
    /\ plugins[sresp.provider.id].configured = 1

\* C5 as stated: the plugin host is asked at most once per URN
C5_Original ==
    \A urn \in PURNs : hostLoads[urn] <= 1

\* C5: the host is asked to load the plugin of a URN only by a load request
\* for that URN whose configuration passed validation, one time per request,
\* and never once a load of that URN has succeeded (a load that failed at the host, at Configure or at the plugin
\* information may be followed by another that asks the host again); lookups
\* never contact the host; at most one plugin is open per URN, and it is the
\* one being loaded or the one the table holds.
C5_LoadedOncePerSuccess ==
    [][ /\ \A urn \in PURNs :
             hostLoads'[urn] # hostLoads[urn] =>
                 /\ hostLoads'[urn] = hostLoads[urn] + 1
                 /\ ~sreq.properties.nil
                 /\ sreq.urn = urn
                 /\ Failures(sreq.properties.m, sreq.allowUnknowns) = <<>>
                 /\ urn \notin DOMAIN issued
        /\ \A urn \in PURNs :
             /\ Cardinality(OpenPlugins(urn)') <= 1
             /\ \A i \in OpenPlugins(urn)' :
                    \/ spc' \in {"configure", "shim"} /\ sprov' = i
                    \/ /\ urn \in DOMAIN providers'
                       /\ providers'[urn].provider = Plugin(i) ]_vars

\* a load that failed was followed by one that succeeded: the host was
\* asked twice for the URN, and one plugin is open for it
C5_Witness ==
    \E urn \in PURNs :
        /\ hostLoads[urn] = 2
        /\ urn \in DOMAIN issued
        /\ Cardinality(OpenPlugins(urn)) = 1

\* the serving task handles a load request whose configuration has a
\* computed value, allows unknowns and passes validation
ShimLoad ==
    /\ ~sreq.properties.nil
    /\ UseShim(sreq.properties.m, sreq.allowUnknowns)
    /\ Failures(sreq.properties.m, sreq.allowUnknowns) = <<>>
\* the plugin holds no place in the handle table
NotRetained(table, id) ==
    \A urn \in DOMAIN table : table[urn].provider # Plugin(id)

\* C12 as stated: a load whose configuration has a computed value, with
\* unknowns allowed and no validation failure, replies a shim and stores it.
C12_Original ==
    (spc = "replying" /\ ShimLoad) =>
        /\ sresp.provider.kind = "shim"
        /\ sreq.urn \in DOMAIN providers
        /\ providers[sreq.urn].provider = sresp.provider

\* C12 amended: such a load asks the host for the plugin and never calls its
\* Configure; if the host fails, or the plugin's GetPluginInfo fails, the
\* error is replied with no provider and nothing is stored; otherwise the
\* load replies and stores a shim of the package whose GetPluginInfo equals
\* the plugin's information.  In both cases a plugin the host loaded is
\* closed once, and is not in the handle table, when the reply is delivered.
C12_ShimLoaded ==
    [][ /\ (spc = "received" /\ ShimLoad /\ spc' \notin {"received", "panicked"}) =>
              \/ spc' = "shim" /\ plugins'[sprov'].configured = 0
              \/ /\ spc' = "replying"
                 /\ sresp' = Response(NoProvider, <<>>, "host")
                 /\ providers' = providers /\ plugins' = plugins
        /\ spc = "shim" => ShimLoad
        /\ (spc = "shim" /\ spc' # "shim") =>
              /\ spc' = "replying"
              /\ plugins'[sprov].configured = 0
              /\ plugins'[sprov].closed = 1
              /\ NotRetained(providers', sprov)
              /\ \/ /\ sresp' = Response(NoProvider, <<>>, "info")
                    /\ providers' = providers
                 \/ /\ sresp'.provider.kind = "shim"
                    /\ sresp'.provider.pkg = sreq.urn.pkg
                    /\ shimGetPluginInfo(sresp'.provider) = PluginInfo(sprov)
                    /\ sresp'.failures = <<>> /\ sresp'.err = Nil
                    /\ providers'[sreq.urn].provider = sresp'.provider
        /\ (spc = "replying" /\ spc' = "idle" /\ ShimLoad /\ sprov # 0) =>
              /\ plugins'[sprov].configured = 0
              /\ plugins'[sprov].closed = 1
              /\ NotRetained(providers', sprov)
              /\ cres'[sreq.caller] = sresp ]_vars

\* a shim that reports version 1.2.3 is about to be replied
C12_Witness ==
    /\ spc = "replying"
    /\ ShimLoad
    /\ sresp.provider.kind = "shim"
    /\ shimGetPluginInfo(sresp.provider).version = <<1, 2, 3>>
    /\ plugins[sprov].closed = 1

\* the serving task passes a load request to loadProvider in this step
LoadStarted ==
    spc = "received" /\ ~sreq.properties.nil /\ spc' \notin {"received", "panicked"}
\* the failures a configuration must be given
VersionNotString(m) == "version" \in DOMAIN m /\ m["version"].kind # "string"
VersionUnparsed(m) ==
    "version" \in DOMAIN m /\ m["version"].kind = "string" /\ m["version"].s # "1.2.3"
Unknown(m, k) == k \in DOMAIN m /\ m[k].kind = "computed"
NotString(m, k) == k \in DOMAIN m /\ m[k].kind \notin {"computed", "string"}
InvalidConfiguration(m, allowUnknowns) ==
    \/ VersionNotString(m)
    \/ VersionUnparsed(m)
    \/ Unknown(m, "region") /\ ~allowUnknowns
    \/ NotString(m, "region")
Reported(failures, property, reason) ==
    \E i \in 1..Len(failures) : failures[i] = CheckFailure(property, reason)

\* C13: a load (of a URN not loaded yet) whose configuration has a "version"
\* that is not a string or does not parse, an unknown value while unknowns
\* are disallowed, or a value that is not a string, replies a failure for
\* each such property, with no provider and no hard error; the plugin host
\* is not asked, no plugin and no table entry changes, and a lookup of the
\* URN would still reply ErrMissingProvider.
C13_ValidationFailures ==
    [][ /\ (LoadStarted /\ InvalidConfiguration(sreq.properties.m, sreq.allowUnknowns)) =>
              LET m == sreq.properties.m
              IN  /\ spc' = "replying"
                  /\ sresp'.provider = NoProvider
                  /\ sresp'.err = Nil
                  /\ Len(sresp'.failures) >= 1
                  /\ VersionNotString(m) =>
                       Reported(sresp'.failures, "version", "'version' must be a string")
                  /\ VersionUnparsed(m) =>
                       Reported(sresp'.failures, "version", "could not parse provider version")
                  /\ (Unknown(m, "region") /\ ~sreq.allowUnknowns) =>
                       Reported(sresp'.failures, "region", "provider properties must not be unknown")
                  /\ NotString(m, "region") =>
                       Reported(sresp'.failures, "region", "provider property values must be strings")
                  /\ hostLoads' = hostLoads
                  /\ plugins' = plugins
                  /\ providers' = providers
                  /\ Lookup(providers', sreq.urn) =
                         Response(NoProvider, <<>>, ErrMissingProvider)
        /\ (spc = "replying" /\ spc' = "idle" /\ ~sreq.properties.nil
              /\ InvalidConfiguration(sreq.properties.m, sreq.allowUnknowns)) =>
              /\ cres'[sreq.caller] = sresp
              /\ Len(sresp.failures) >= 1
              /\ UNCHANGED <<providers, plugins, hostLoads, issued>> ]_vars

\* a load whose version and whose other property are both invalid is about
\* to reply two failures
C13_Witness ==
    /\ spc = "replying"
    /\ ~sreq.properties.nil
    /\ Len(sresp.failures) = 2
    /\ hostLoads[sreq.urn] = 0

\* the serving task's call of Configure returns in this step
ConfigureReturned == spc = "configure" /\ spc' = "replying"

\* C14: the Configure call of a load configures the plugin once; when it
\* does not yield the provider, the plugin has been closed exactly once, the
\* reply carries the Configure error (whatever the close returned), no
\* provider and no failures, and the handle table is unchanged with no entry
\* for the URN; no plugin is ever closed twice.
C14_ConfigureFailure ==
    [][ /\ \A i \in 1..Len(plugins') : plugins'[i].closed <= 1
        /\ ConfigureReturned =>
              /\ plugins'[sprov].configured = 1
              /\ \/ /\ sresp' = Response(Plugin(sprov), <<>>, Nil)
                    /\ plugins'[sprov].closed = 0
                 \/ /\ sresp' = Response(NoProvider, <<>>, "configure")
                    /\ plugins'[sprov].closed = 1
                    /\ providers' = providers
                    /\ sreq.urn \notin DOMAIN providers'
        /\ (spc = "replying" /\ spc' = "idle" /\ sresp.err = "configure") =>
              /\ cres'[sreq.caller] = Response(NoProvider, <<>>, "configure")
              /\ plugins'[sprov].closed = 1
              /\ sreq.urn \notin DOMAIN providers'
              /\ issued' = issued ]_vars

\* a load whose Configure failed is about to reply, its plugin closed
C14_Witness ==
    /\ spc = "replying"
    /\ sresp.err = "configure"
    /\ sprov # 0
    /\ plugins[sprov].configured = 1
    /\ plugins[sprov].closed = 1

\* the serving task takes up a load request in this step
LoadServed == spc = "received" /\ ~sreq.properties.nil /\ spc' # "received"

\* C15 as stated, for a second Check whose first one reached the plugin
\* host: the Check trips the assertion.
C15_Original ==
    [][ (LoadServed /\ hostLoads[sreq.urn] >= 1) => spc' = "panicked" ]_vars

\* C15 amended: a Check trips the duplicate-load assertion of the serving
\* task exactly when an earlier Check of the same URN has replied a provider
\* (a plugin or a shim); after Checks of the URN that replied failures or a
\* hard error it is served like a first one.  Once the assertion has failed
\* the serving task takes no further step.
C15_DuplicateLoadAsserted ==
    [][ /\ LoadServed => (spc' = "panicked" <=> sreq.urn \in DOMAIN issued)
        /\ spc = "panicked" =>
             UNCHANGED <<spc, sreq, sresp, sprov, providers, plugins, cres>> ]_vars

\* a second Check of a URN whose first Check replied a shim has tripped the
\* assertion
C15_Witness ==
    /\ spc = "panicked"
    /\ sreq.urn \in DOMAIN issued
    /\ issued[sreq.urn].kind = "shim"

\* the callers whose request the serving task has received and not answered
Waiting == { c \in Callers : cpc[c] = "waiting" }
\* a step of the serving task
ServerStep == spc' # spc

\* C16: with callers making load and lookup requests concurrently, the
\* serving task holds at most one request at a time, and it is the request of
\* the one caller that waits for a reply; the handle table changes only in a
\* step of the serving task that ends a load; a reply goes to the caller
\* whose request it answers and to no other; a lookup is answered in one
\* step from the table alone, with ErrMissingProvider or with the handle a
\* load stored, which if it is a plugin has been configured once and is not
\* closed.
C16_SerializedRegistry ==
    [][ /\ Waiting' = IF spc' = "idle" THEN {} ELSE {sreq'.caller}
        /\ \A c \in Waiting' :
             /\ creq'[c].urn = sreq'.urn
             /\ creq'[c].properties = sreq'.properties
        /\ providers' # providers =>
             /\ spc \in {"configure", "shim"} /\ spc' = "replying"
             /\ ~sreq.properties.nil
             /\ DOMAIN providers' = DOMAIN providers \cup {sreq.urn}
             /\ \A urn \in DOMAIN providers : providers'[urn] = providers[urn]
             /\ UNCHANGED <<cpc, creq, cres>>
        /\ (spc = "replying" /\ ServerStep) =>
             /\ cres'[sreq.caller] = sresp
             /\ cpc[sreq.caller] = "waiting" /\ cpc'[sreq.caller] = "idle"
             /\ \A c \in Callers \ {sreq.caller} :
                  cres'[c] = cres[c] /\ cpc'[c] = cpc[c] /\ creq'[c] = creq[c]
        /\ (spc = "received" /\ sreq.properties.nil /\ ServerStep) =>
             /\ spc' = "replying"
             /\ \/ sresp' = Response(NoProvider, <<>>, ErrMissingProvider)
                \/ /\ sreq.urn \in DOMAIN providers
                   /\ sresp' = Response(providers[sreq.urn].provider, <<>>, Nil)
                   /\ sresp'.provider.kind = "plugin" =>
                        /\ plugins[sresp'.provider.id].configured = 1
                        /\ plugins[sresp'.provider.id].closed = 0
                   /\ sresp'.provider.kind \in {"plugin", "shim"} ]_vars

\* a lookup of a URN waits in the queue while the load of the same URN has
\* its plugin loaded and not yet configured
C16_Witness ==
    /\ spc = "configure"
    /\ \E c \in Callers :
         /\ cpc[c] = "sending"
         /\ creq[c].properties.nil
         /\ creq[c].urn = sreq.urn

\* C24: every call on the meta-provider eventually returns to its caller,
\* unless the assertion of the serving task has fired: a request that is
\* being sent, or waits behind the load of another caller, is received,
\* served and replied to.
C24_CallsReturn ==
    \A c \in Callers :
        (cpc[c] # "idle") ~> (cpc[c] = "idle" \/ spc = "panicked")

\* a caller's request waits on loadRequests while the serving task is
\* configuring the plugin of another caller's load
C24_Witness ==
    \E c \in Callers :
        /\ cpc[c] = "sending"
        /\ spc = "configure"
        /\ sreq.caller # c

====
